---- MODULE Spec2Model ----
(***************************************************************************)
(* Model of the ESPHome Dashboard integration's update platform:           *)
(* the polling coordinator, entity discovery, the per-entity version       *)
(* resolver (live > cached > dashboard) and the compile/upload install.    *)
(* Every await of the source is a boundary between two actions.            *)
(***************************************************************************)
EXTENDS Integers, Sequences, FiniteSets, TLC

\* ------------------------------------------------------------------ bounds
\* longest device list one dashboard response carries
MaxDevices == 2

\* ------------------------------------------------------------- value sets
None == "None"
Names == {"kitchen", "attic"}
Versions == {"1.0", "1.1"}
Addr == "10.0.0.5"
CustomConfiguration == "firmware.yaml"

\* Python truthiness of an optional string
Truthy(x) == x # None /\ x # ""

\* <<configuration, address, deployed_version, current_version>> of the
\* device records a dashboard response may carry (None: key absent)
Shapes ==
    { <<CustomConfiguration, Addr, "1.0", "1.1">>,
      <<None, Addr, "1.0", None>>,
      <<None, None, "1.0", "1.1">>,
      <<None, "", None, "1.1">>,
      <<CustomConfiguration, None, None, None>> }

Records ==
    { [name |-> n, configuration |-> s[1], address |-> s[2],
       deployed_version |-> s[3], current_version |-> s[4]] :
      n \in Names, s \in Shapes }

\* the "configured" lists a dashboard may return, given the records it
\* can hold
DeviceLists(records) == UNION { [1..k -> records] : k \in 0..MaxDevices }

NamesOf(records) == { r.name : r \in records }

\* ------------------------------------------------------------------ state
VARIABLES
    dashboardRecords,   \* device records the dashboard can report
    data,               \* coordinator.data: device name -> device record
    lastUpdateSuccess,  \* coordinator.last_update_success
    platformSetup,      \* update.async_setup_entry has run
    known_devices,      \* closure variable of async_setup_entry
    entityCount,        \* entities handed to async_add_entities, per name
    lifecycle,          \* per name: "none", "constructed", "added"
    entity,             \* per name: the entity's fields
    espLoaded,          \* per name: the esphome config entry is LOADED
    espInfo,            \* per name: its runtime_data.device_info version
    fetchTasks,         \* per name: background direct queries in flight
    pc,                 \* per name: position of async_install
    installLog,         \* per name: calls made by the current install
    installResult,      \* per name: outcome of the last install
    everSeen,           \* names that ever occurred in coordinator data
    lastApplied,        \* per name: record last handed to _update_attrs
    staleCache,         \* per name: cached value discarded on linking
    queried,            \* per name: a direct query has succeeded
    response,           \* what api.get_devices did in the recorded refresh
    fetched,            \* what _async_update_data made of it
    entries,            \* config entries of this integration, in creation order
    flowCalls,          \* network calls of the last flow step's validation
    flowResult,         \* what the last flow step returned
    lastQuery           \* per name: the last direct query on record

vars == <<dashboardRecords, data, lastUpdateSuccess, platformSetup,
          known_devices, entityCount, lifecycle, entity, espLoaded, espInfo,
          fetchTasks, pc, installLog, installResult, everSeen, lastApplied,
          staleCache, queried, response, fetched, entries, flowCalls,
          flowResult, lastQuery>>

fetchVars == <<response, fetched>>
flowVars == <<entries, flowCalls, flowResult>>
\* what the update platform's own actions never touch
frozenVars == <<dashboardRecords, fetchVars, flowVars, lastQuery>>
coordVars == <<frozenVars, data, lastUpdateSuccess, platformSetup,
               known_devices, entityCount, everSeen>>
espVars == <<espLoaded, espInfo>>
installVars == <<pc, installLog, installResult>>

INSTALL == "INSTALL"
NoFeature == "0"
NoEntity == [_configuration |-> None, _address |-> None,
             _esphome_entry_data |-> FALSE, _cached_device_version |-> None,
             _esphome_unsubscribe |-> FALSE,
             _dashboard_deployed_version |-> None,
             _attr_latest_version |-> None,
             _attr_supported_features |-> NoFeature,
             _attr_available |-> FALSE,
             \* calls of async_subscribe_device_updated, and calls of the
             \* callbacks it returned
             subscribed |-> 0, unsubscribed |-> 0]

\* ------------------------------------------------------------ coordinator
\* {device["name"]: device for device in configured_devices}
RECURSIVE IndexByName(_)
IndexByName(list) ==
    IF list = <<>> THEN << >>
    ELSE LET front == IndexByName(SubSeq(list, 1, Len(list) - 1))
             last == list[Len(list)]
         IN [n \in (DOMAIN front) \cup {last.name} |->
                IF n = last.name THEN last ELSE front[n]]

\* _async_update_data over every list the dashboard may return
FetchResults(records) == { IndexByName(l) : l \in DeviceLists(records) }

\* a device record without the "name" key
Malformed == [malformed |-> TRUE]

\* what api.get_devices() may do: return a JSON object with or without
\* the "configured" list, raise ClientResponseError with a status, or
\* raise a connection error
Responses(records) ==
    { [type |-> "json", has_configured |-> TRUE, configured |-> l] :
        l \in DeviceLists(records \cup {Malformed}) }
    \cup { [type |-> "json", has_configured |-> FALSE, configured |-> <<>>] }
    \cup { [type |-> "http_error", status |-> st] : st \in {401, 403, 404, 500} }
    \cup { [type |-> "connection_error"] }

\* the three ways _async_update_data ends
AuthFailed == [kind |-> "ConfigEntryAuthFailed"]
UpdateFailed == [kind |-> "UpdateFailed"]
Fetched(d) == [kind |-> "data", data |-> d]

\* devices_data.get("configured", [])
ConfiguredDevices(resp) ==
    IF resp.has_configured THEN resp.configured ELSE <<>>

AsyncUpdateDataRequiresConfigured(resp) ==
    IF resp.type = "http_error"
    THEN IF resp.status \in {401, 403} THEN AuthFailed ELSE UpdateFailed
    ELSE IF resp.type = "connection_error" THEN UpdateFailed
    ELSE IF ~resp.has_configured THEN UpdateFailed
    ELSE LET configured_devices == ConfiguredDevices(resp)
         IN IF \E i \in DOMAIN configured_devices :
                   configured_devices[i] = Malformed
            THEN UpdateFailed
            ELSE Fetched(IndexByName(configured_devices))

AsyncUpdateDataOnly401(resp) ==
    IF resp.type = "http_error"
    THEN IF resp.status = 401 THEN AuthFailed ELSE UpdateFailed
    ELSE IF resp.type = "connection_error" THEN UpdateFailed
    ELSE LET configured_devices == ConfiguredDevices(resp)
         IN IF \E i \in DOMAIN configured_devices :
                   configured_devices[i] = Malformed
            THEN UpdateFailed
            ELSE Fetched(IndexByName(configured_devices))

AsyncUpdateDataFirstWins(resp) ==
    IF resp.type = "http_error"
    THEN IF resp.status \in {401, 403} THEN AuthFailed ELSE UpdateFailed
    ELSE IF resp.type = "connection_error" THEN UpdateFailed
    ELSE LET configured_devices == ConfiguredDevices(resp)
             reversed == [i \in DOMAIN configured_devices |->
                 configured_devices[Len(configured_devices) + 1 - i]]
         IN IF \E i \in DOMAIN configured_devices :
                   configured_devices[i] = Malformed
            THEN UpdateFailed
            ELSE Fetched(IndexByName(reversed))

\* _async_update_data
AsyncUpdateData(resp) ==
    IF resp.type = "http_error"
    THEN IF resp.status \in {401, 403} THEN AuthFailed ELSE UpdateFailed
    ELSE IF resp.type = "connection_error" THEN UpdateFailed
    ELSE LET configured_devices == ConfiguredDevices(resp)
         IN IF \E i \in DOMAIN configured_devices :
                   configured_devices[i] = Malformed
            THEN UpdateFailed
            ELSE Fetched(IndexByName(configured_devices))

\* ----------------------------------------------------------------- entity
\* _find_esphome_entry_data: a LOADED esphome entry whose device_info
\* carries this device name
FindEsphomeEntryData(n) == espLoaded[n] /\ espInfo[n] # None

UpdateAttrsDeployedFirst(e, device_data) ==
    [e EXCEPT
        !._attr_available = TRUE,
        !._dashboard_deployed_version = device_data.deployed_version,
        !._attr_latest_version =
            IF Truthy(device_data.deployed_version)
            THEN device_data.deployed_version
            ELSE device_data.current_version,
        !._address = device_data.address,
        !._attr_supported_features =
            IF Truthy(device_data.address) THEN INSTALL ELSE NoFeature]

UpdateAttrsNotNone(e, device_data) ==
    [e EXCEPT
        !._attr_available = TRUE,
        !._dashboard_deployed_version = device_data.deployed_version,
        !._attr_latest_version =
            IF Truthy(device_data.current_version)
            THEN device_data.current_version
            ELSE device_data.deployed_version,
        !._address = device_data.address,
        !._attr_supported_features =
            IF device_data.address # None THEN INSTALL ELSE NoFeature]

\* _update_attrs
UpdateAttrs(e, device_data) ==
    [e EXCEPT
        !._attr_available = TRUE,
        !._dashboard_deployed_version = device_data.deployed_version,
        !._attr_latest_version =
            IF Truthy(device_data.current_version)
            THEN device_data.current_version
            ELSE device_data.deployed_version,
        !._address = device_data.address,
        !._attr_supported_features =
            IF Truthy(device_data.address) THEN INSTALL ELSE NoFeature]

\* ESPHomeDashboardUpdateEntity.__init__
NewEntity(n, device_data) ==
    UpdateAttrs(
        [NoEntity EXCEPT
            !._configuration =
                IF device_data.configuration # None
                THEN device_data.configuration ELSE n \o ".yaml",
            !._address = device_data.address],
        device_data)

ResolvedTierCachedFirst(n) ==
    IF Truthy(entity[n]._cached_device_version) THEN "cached"
    ELSE IF entity[n]._esphome_entry_data /\ espInfo[n] # None THEN "live"
    ELSE "dashboard"

\* installed_version, and the tier it was taken from
ResolvedTier(n) ==
    IF entity[n]._esphome_entry_data /\ espInfo[n] # None THEN "live"
    ELSE IF Truthy(entity[n]._cached_device_version) THEN "cached"
    ELSE "dashboard"

installed_version(n) ==
    CASE ResolvedTier(n) = "live" -> espInfo[n]
      [] ResolvedTier(n) = "cached" -> entity[n]._cached_device_version
      [] OTHER -> entity[n]._dashboard_deployed_version

availableFromAttr(n) == entity[n]._attr_available

\* available: CoordinatorEntity.available and membership in coordinator.data
available(n) == lastUpdateSuccess /\ n \in DOMAIN data

\* outcomes of async_install: the HomeAssistantError messages, by their variable parts
NoAddressError(n) == <<"error", "no address available for", n>>
CompileError(configuration) == <<"error", "Failed to compile", configuration>>
UploadError(n, address) == <<"error", "Failed to upload to", n, "at", address>>
Installed == <<"ok">>
NoResult == <<"none">>

\* nothing fetched or submitted yet
NoResponse == [type |-> "none"]
NoOutcome == [kind |-> "none"]
NoQuery == [result |-> "none", discovery |-> "none", port |-> 0]
NoFlowResult == [type |-> "none", step |-> "", url |-> <<>>, reason |-> ""]

\* ------------------------------------------------------------------- Init
\* state after the config entry's first refresh succeeded
InitWith(records) ==
    /\ dashboardRecords = records
    /\ data \in FetchResults(records)
    /\ lastUpdateSuccess = TRUE
    /\ platformSetup = FALSE
    /\ known_devices = {}
    /\ entityCount = [n \in Names |-> 0]
    /\ lifecycle = [n \in Names |-> "none"]
    /\ entity = [n \in Names |-> NoEntity]
    /\ espLoaded \in { f \in [Names -> BOOLEAN] :
                         \A n \in Names \ NamesOf(records) : ~f[n] }
    /\ espInfo = [n \in Names |-> None]
    /\ fetchTasks = [n \in Names |-> 0]
    /\ pc = [n \in Names |-> "idle"]
    /\ installLog = [n \in Names |-> <<>>]
    /\ installResult = [n \in Names |-> NoResult]
    /\ everSeen = DOMAIN data
    /\ lastApplied = [n \in Names |-> None]
    /\ staleCache = [n \in Names |-> None]
    /\ queried = [n \in Names |-> FALSE]
    /\ response = NoResponse
    /\ fetched = NoOutcome
    /\ entries = <<>>
    /\ flowCalls = <<>>
    /\ flowResult = NoFlowResult
    /\ lastQuery = [n \in Names |-> NoQuery]

\* a dashboard with one device in every shape: the entity's resolver and
\* install in full
KitchenRecords == { r \in Records : r.name = "kitchen" }
Init == InitWith(KitchenRecords)

\* a dashboard with every device, with and without an address: discovery
\* across names
DiscoveryRecords ==
    { r \in Records : r.deployed_version = "1.0" /\ r.current_version = "1.1" }
InitDiscovery == InitWith(DiscoveryRecords)

\* a dashboard whose lists can repeat a name with different records
RepeatingRecords ==
    { r \in Records : \/ r.name = "kitchen" /\ r.address = Addr
                      \/ r.name = "attic" /\ r.address = "" }

\* a dashboard with one device that always has an address: the direct
\* query
AddressedRecords == { r \in KitchenRecords : r.address = Addr }
InitQuery == InitWith(AddressedRecords)

\* FetchResults of each dashboard, computed once
Dashboards ==
    {KitchenRecords, DiscoveryRecords, RepeatingRecords, AddressedRecords, {}}
FetchResultsOf == [records \in Dashboards |-> FetchResults(records)]

\* ------------------------------------------------- coordinator listeners
NotYetKnownUnchecked(d, known) == DOMAIN d

\* async_add_update_entities: the names of coordinator.data not yet known
NotYetKnown(d, known) == DOMAIN d \ known

HandleCoordinatorUpdateKeepsCache(n, e, d) ==
    LET found == ~e._esphome_entry_data /\ FindEsphomeEntryData(n)
        linked == IF found
                  THEN [e EXCEPT !._esphome_entry_data = TRUE,
                                 !._esphome_unsubscribe = TRUE,
                                 !.subscribed = @ + 1]
                  ELSE e
    IN IF n \in DOMAIN d
       THEN UpdateAttrs(linked, d[n])
       ELSE [linked EXCEPT !._attr_available = FALSE]

\* _handle_coordinator_update of the entity named n, coordinator.data = d
HandleCoordinatorUpdate(n, e, d) ==
    LET found == ~e._esphome_entry_data /\ FindEsphomeEntryData(n)
        linked == IF found
                  THEN [e EXCEPT !._esphome_entry_data = TRUE,
                                 !._esphome_unsubscribe = TRUE,
                                 !.subscribed = @ + 1,
                                 !._cached_device_version = None]
                  ELSE e
    IN IF n \in DOMAIN d
       THEN UpdateAttrs(linked, d[n])
       ELSE [linked EXCEPT !._attr_available = FALSE]

\* DataUpdateCoordinator.async_update_listeners: the discovery listener
\* registered by async_setup_entry, then every entity added to hass
UpdateListeners(d) ==
    LET new == NotYetKnown(d, known_devices)
    IN /\ known_devices' = known_devices \cup new
       /\ entityCount' = [n \in Names |->
              IF n \in new THEN entityCount[n] + 1 ELSE entityCount[n]]
       /\ lifecycle' = [n \in Names |->
              IF n \in new THEN "constructed" ELSE lifecycle[n]]
       /\ entity' = [n \in Names |->
              IF n \in new THEN NewEntity(n, d[n])
              ELSE IF lifecycle[n] = "added"
                   THEN HandleCoordinatorUpdate(n, entity[n], d)
                   ELSE entity[n]]
       /\ lastApplied' = [n \in Names |->
              IF n \in new \/ (lifecycle[n] = "added" /\ n \in DOMAIN d)
              THEN d[n] ELSE lastApplied[n]]
       /\ staleCache' = [n \in Names |->
              IF /\ n \notin new
                 /\ lifecycle[n] = "added"
                 /\ ~entity[n]._esphome_entry_data
                 /\ FindEsphomeEntryData(n)
                 /\ Truthy(entity[n]._cached_device_version)
              THEN entity[n]._cached_device_version ELSE staleCache[n]]

\* update.async_setup_entry: initial discovery, listener registration
SetupEntry ==
    /\ ~platformSetup
    /\ platformSetup' = TRUE
    /\ LET new == NotYetKnown(data, known_devices)
       IN /\ known_devices' = known_devices \cup new
          /\ entityCount' = [n \in Names |->
                 IF n \in new THEN entityCount[n] + 1 ELSE entityCount[n]]
          /\ lifecycle' = [n \in Names |->
                 IF n \in new THEN "constructed" ELSE lifecycle[n]]
          /\ entity' = [n \in Names |->
                 IF n \in new THEN NewEntity(n, data[n]) ELSE entity[n]]
          /\ lastApplied' = [n \in Names |->
                 IF n \in new THEN data[n] ELSE lastApplied[n]]
    /\ UNCHANGED <<frozenVars, data, lastUpdateSuccess, everSeen,
                   staleCache, queried, espVars, fetchTasks, installVars>>

\* DataUpdateCoordinator refresh when _async_update_data returned d
RefreshSucceeded(d) ==
    /\ data' = d
    /\ lastUpdateSuccess' = TRUE
    /\ everSeen' = everSeen \cup DOMAIN d
    /\ UpdateListeners(d)

\* DataUpdateCoordinator refresh when _async_update_data raised: data is
\* kept, listeners run on the first failure after a success
RefreshFailed ==
    /\ lastUpdateSuccess' = FALSE
    /\ IF lastUpdateSuccess
       THEN UpdateListeners(data)
       ELSE UNCHANGED <<known_devices, entityCount, lifecycle, entity,
                        lastApplied, staleCache>>
    /\ UNCHANGED <<data, everSeen>>

\* a poll (interval tick or requested refresh) whose fetch succeeds
PollSuccess ==
    /\ platformSetup
    /\ \E d \in FetchResultsOf[dashboardRecords] : RefreshSucceeded(d)
    /\ UNCHANGED <<frozenVars, platformSetup, espVars, fetchTasks,
                   installVars, queried>>

\* a poll whose fetch raises
PollFail ==
    /\ platformSetup
    /\ RefreshFailed
    /\ UNCHANGED <<frozenVars, platformSetup, espVars, fetchTasks,
                   installVars, queried>>

\* a poll with the dashboard's response and the fetch's outcome on record
Refresh ==
    /\ platformSetup
    /\ \E resp \in Responses(dashboardRecords) :
          /\ response' = resp
          /\ fetched' = AsyncUpdateData(resp)
          /\ IF fetched'.kind = "data"
             THEN RefreshSucceeded(fetched'.data)
             ELSE RefreshFailed
    /\ UNCHANGED <<dashboardRecords, flowVars, lastQuery, platformSetup,
                   espVars, fetchTasks, installVars, queried>>

\* ---------------------------------------------- esphome integration side
EspSetLoaded(n) ==
    /\ n \in NamesOf(dashboardRecords)
    /\ espLoaded' = [espLoaded EXCEPT ![n] = ~espLoaded[n]]
    /\ UNCHANGED <<coordVars, lifecycle, entity, espInfo, fetchTasks,
                   installVars, lastApplied, staleCache, queried>>

\* device_info of the entry's runtime data is set, replaced or unset;
\* subscribers (_handle_esphome_device_update) only rewrite their state
EspDeviceUpdate(n) ==
    /\ n \in NamesOf(dashboardRecords)
    /\ \E v \in (Versions \cup {None}) \ {espInfo[n]} :
          espInfo' = [espInfo EXCEPT ![n] = v]
    /\ UNCHANGED <<coordVars, lifecycle, entity, espLoaded, fetchTasks,
                   installVars, lastApplied, staleCache, queried>>

\* --------------------------------------------------------- entity methods
AddedToHass(n) ==
    /\ lifecycle[n] = "constructed"
    /\ lifecycle' = [lifecycle EXCEPT ![n] = "added"]
    /\ IF FindEsphomeEntryData(n)
       THEN /\ entity' = [entity EXCEPT ![n]._esphome_entry_data = TRUE,
                                        ![n]._esphome_unsubscribe = TRUE,
                                        ![n].subscribed = @ + 1]
            /\ UNCHANGED fetchTasks
       ELSE IF Truthy(entity[n]._address)
       THEN /\ fetchTasks' = [fetchTasks EXCEPT ![n] = @ + 1]
            /\ UNCHANGED entity
       ELSE UNCHANGED <<entity, fetchTasks>>
    /\ UNCHANGED <<coordVars, espVars, installVars, lastApplied, staleCache,
                   queried>>

\* _async_fetch_device_version after its query returned version
\* (None: the query failed)
StoreFetched(e, version) ==
    IF Truthy(version) THEN [e EXCEPT !._cached_device_version = version]
    ELSE e

\* the task created by async_added_to_hass completes
FetchReturn(n) ==
    /\ fetchTasks[n] > 0
    /\ fetchTasks' = [fetchTasks EXCEPT ![n] = @ - 1]
    /\ \E version \in Versions \cup {None} :
          /\ entity' = [entity EXCEPT ![n] = StoreFetched(@, version)]
          /\ queried' = [queried EXCEPT ![n] = @ \/ Truthy(version)]
    /\ UNCHANGED <<coordVars, lifecycle, espVars, installVars, lastApplied,
                   staleCache>>

\* ------------------------------------------------------ the direct query
DEFAULT_PORT == 6053
\* the port a device advertises over mDNS, and "no port" (None)
AdvertisedPort == 6054
NoPort == 0

\* how info.async_request and the calls before it may end
DiscoveryOutcomes ==
    { [kind |-> "found", port |-> AdvertisedPort] }
    \cup { [kind |-> k, port |-> NoPort] :
             k \in {"not_found", "TimeoutError", "OSError", "AttributeError"} }

\* how client.connect and client.device_info may end
ConnectionOutcomes ==
    { [kind |-> "device_info", at |-> "device_info", version |-> v] :
        v \in Versions }
    \cup { [kind |-> "APIConnectionError", at |-> a, version |-> None] :
             a \in {"connect", "device_info"} }

\* _async_discover_device_port
DiscoverDevicePort(discovery) ==
    IF discovery.kind = "found" THEN discovery.port ELSE NoPort

QueryDeviceVersionNoFallback(discovery, connection) ==
    [port |-> DiscoverDevicePort(discovery),
     version |-> IF connection.kind = "APIConnectionError"
                 THEN None ELSE connection.version]

\* _async_query_device_version: the port it connects to and what it
\* returns
QueryDeviceVersion(discovery, connection) ==
    LET discovered == DiscoverDevicePort(discovery)
    IN [port |-> IF discovered = NoPort THEN DEFAULT_PORT ELSE discovered,
        version |-> IF connection.kind = "APIConnectionError"
                    THEN None ELSE connection.version]

\* a completed query as lastQuery keeps it
QueryRecord(discovery, q) ==
    [result |-> IF Truthy(q.version) THEN "ok" ELSE "failed",
     discovery |-> discovery.kind, port |-> q.port]

\* FetchReturn, with the query on record
FetchCompletes(n) ==
    /\ fetchTasks[n] > 0
    /\ fetchTasks' = [fetchTasks EXCEPT ![n] = @ - 1]
    /\ \E discovery \in DiscoveryOutcomes, connection \in ConnectionOutcomes :
          LET q == QueryDeviceVersion(discovery, connection) IN
          /\ entity' = [entity EXCEPT ![n] = StoreFetched(@, q.version)]
          /\ queried' = [queried EXCEPT ![n] = @ \/ Truthy(q.version)]
          /\ lastQuery' = [lastQuery EXCEPT ![n] = QueryRecord(discovery, q)]
    /\ UNCHANGED <<dashboardRecords, fetchVars, flowVars, data,
                   lastUpdateSuccess, platformSetup, known_devices,
                   entityCount, everSeen, lifecycle, espVars, installVars,
                   lastApplied, staleCache>>

TeardownKeepsCallback(e) ==
    IF e._esphome_unsubscribe
    THEN [e EXCEPT !.unsubscribed = @ + 1]
    ELSE e

\* async_will_remove_from_hass: call the unsubscribe callback and drop it
Teardown(e) ==
    IF e._esphome_unsubscribe
    THEN [e EXCEPT !._esphome_unsubscribe = FALSE,
                   !.unsubscribed = @ + 1]
    ELSE e

\* the entity is removed from Home Assistant (again, if it was removed
\* before): its coordinator listener is gone, tasks in flight go on
WillRemoveFromHass(n) ==
    /\ lifecycle[n] \in {"added", "removed"}
    /\ lifecycle' = [lifecycle EXCEPT ![n] = "removed"]
    /\ entity' = [entity EXCEPT ![n] = Teardown(@)]
    /\ UNCHANGED <<coordVars, espVars, fetchTasks, installVars, lastApplied,
                   staleCache, queried>>

\* ---------------------------------------------------------- async_install
InstallRefusedNever(e) == FALSE

\* the guard of async_install: the entity has no address
InstallRefused(e) == ~Truthy(e._address)

\* entry of async_install up to the await of api.compile
InstallStart(n) ==
    /\ lifecycle[n] = "added"
    /\ pc[n] = "idle"
    /\ IF InstallRefused(entity[n])
       THEN /\ installResult' = [installResult EXCEPT ![n] = NoAddressError(n)]
            /\ installLog' = [installLog EXCEPT ![n] = <<>>]
            /\ UNCHANGED pc
       ELSE /\ installResult' = [installResult EXCEPT ![n] = NoResult]
            /\ installLog' = [installLog EXCEPT
                   ![n] = << <<"compile", entity[n]._configuration>> >>]
            /\ pc' = [pc EXCEPT ![n] = "compiling"]
    /\ UNCHANGED <<coordVars, lifecycle, entity, espVars, fetchTasks,
                   lastApplied, staleCache, queried>>

AfterCompileUnchecked(n, compile_success) ==
    /\ installLog' = [installLog EXCEPT ![n] = @ \o
           << <<"compile_result",
                IF compile_success THEN "success" ELSE "failure">>,
              <<"upload", entity[n]._configuration, entity[n]._address>> >>]
    /\ pc' = [pc EXCEPT ![n] = "uploading"]
    /\ UNCHANGED installResult

\* api.compile returned compile_success; on success api.upload is called
AfterCompile(n, compile_success) ==
    IF ~compile_success
    THEN /\ installResult' = [installResult EXCEPT
                ![n] = CompileError(entity[n]._configuration)]
         /\ pc' = [pc EXCEPT ![n] = "idle"]
         /\ installLog' = [installLog EXCEPT
                ![n] = Append(@, <<"compile_result", "failure">>)]
    ELSE /\ installLog' = [installLog EXCEPT ![n] = @ \o
                << <<"compile_result", "success">>,
                   <<"upload", entity[n]._configuration, entity[n]._address>> >>]
         /\ pc' = [pc EXCEPT ![n] = "uploading"]
         /\ UNCHANGED installResult

CompileReturn(n) ==
    /\ pc[n] = "compiling"
    /\ \E compile_success \in BOOLEAN : AfterCompile(n, compile_success)
    /\ UNCHANGED <<coordVars, lifecycle, entity, espVars, fetchTasks,
                   lastApplied, staleCache, queried>>

AfterUploadClearsFirst(n, upload_success) ==
    /\ entity' = [entity EXCEPT ![n]._cached_device_version = None]
    /\ IF ~upload_success
       THEN /\ installResult' = [installResult EXCEPT
                   ![n] = UploadError(n, entity[n]._address)]
            /\ pc' = [pc EXCEPT ![n] = "idle"]
            /\ installLog' = [installLog EXCEPT
                   ![n] = Append(@, <<"upload_result", "failure">>)]
       ELSE /\ installLog' = [installLog EXCEPT ![n] = @ \o
                   << <<"upload_result", "success">>, <<"clear_cache">>,
                      <<"request_refresh">> >>]
            /\ pc' = [pc EXCEPT ![n] = "refreshing"]
            /\ UNCHANGED installResult

\* api.upload returned upload_success; on success the cached version is
\* cleared and coordinator.async_request_refresh is called
AfterUpload(n, upload_success) ==
    IF ~upload_success
    THEN /\ installResult' = [installResult EXCEPT
                ![n] = UploadError(n, entity[n]._address)]
         /\ pc' = [pc EXCEPT ![n] = "idle"]
         /\ installLog' = [installLog EXCEPT
                ![n] = Append(@, <<"upload_result", "failure">>)]
         /\ UNCHANGED entity
    ELSE /\ entity' = [entity EXCEPT ![n]._cached_device_version = None]
         /\ installLog' = [installLog EXCEPT ![n] = @ \o
                << <<"upload_result", "success">>, <<"clear_cache">>,
                   <<"request_refresh">> >>]
         /\ pc' = [pc EXCEPT ![n] = "refreshing"]
         /\ UNCHANGED installResult

UploadReturn(n) ==
    /\ pc[n] = "uploading"
    /\ \E upload_success \in BOOLEAN : AfterUpload(n, upload_success)
    /\ UNCHANGED <<coordVars, lifecycle, espVars, fetchTasks, lastApplied,
                   staleCache, queried>>

RequeryAfterInstallAlways(e) == Truthy(e._address)

\* the condition under which a finished install re-queries the device
RequeryAfterInstall(e) == ~e._esphome_entry_data /\ Truthy(e._address)

\* async_request_refresh returned
RefreshReturn(n) ==
    /\ pc[n] = "refreshing"
    /\ IF RequeryAfterInstall(entity[n])
       THEN /\ installLog' = [installLog EXCEPT
                   ![n] = Append(@, <<"query", entity[n]._address>>)]
            /\ pc' = [pc EXCEPT ![n] = "querying"]
            /\ UNCHANGED installResult
       ELSE /\ installResult' = [installResult EXCEPT ![n] = Installed]
            /\ pc' = [pc EXCEPT ![n] = "idle"]
            /\ UNCHANGED installLog
    /\ UNCHANGED <<coordVars, lifecycle, entity, espVars, fetchTasks,
                   lastApplied, staleCache, queried>>

\* the direct query awaited by async_install returned
QueryReturn(n) ==
    /\ pc[n] = "querying"
    /\ \E version \in Versions \cup {None} :
          /\ entity' = [entity EXCEPT ![n] = StoreFetched(@, version)]
          /\ queried' = [queried EXCEPT ![n] = @ \/ Truthy(version)]
    /\ installResult' = [installResult EXCEPT ![n] = Installed]
    /\ pc' = [pc EXCEPT ![n] = "idle"]
    /\ UNCHANGED <<coordVars, lifecycle, espVars, fetchTasks, installLog,
                   lastApplied, staleCache>>

\* QueryReturn, with the query on record
InstallQueryCompletes(n) ==
    /\ pc[n] = "querying"
    /\ \E discovery \in DiscoveryOutcomes, connection \in ConnectionOutcomes :
          LET q == QueryDeviceVersion(discovery, connection) IN
          /\ entity' = [entity EXCEPT ![n] = StoreFetched(@, q.version)]
          /\ queried' = [queried EXCEPT ![n] = @ \/ Truthy(q.version)]
          /\ lastQuery' = [lastQuery EXCEPT ![n] = QueryRecord(discovery, q)]
    /\ installResult' = [installResult EXCEPT ![n] = Installed]
    /\ pc' = [pc EXCEPT ![n] = "idle"]
    /\ UNCHANGED <<dashboardRecords, fetchVars, flowVars, data,
                   lastUpdateSuccess, platformSetup, known_devices,
                   entityCount, everSeen, lifecycle, espVars, fetchTasks,
                   installLog, lastApplied, staleCache>>

\* ------------------------------------------------------------------- Next
Next ==
    \/ SetupEntry
    \/ PollSuccess
    \/ PollFail
    \/ \E n \in Names : EspSetLoaded(n)
    \/ \E n \in Names : EspDeviceUpdate(n)
    \/ \E n \in Names : AddedToHass(n)
    \/ \E n \in Names : FetchReturn(n)
    \/ \E n \in Names : InstallStart(n)
    \/ \E n \in Names : CompileReturn(n)
    \/ \E n \in Names : UploadReturn(n)
    \/ \E n \in Names : RefreshReturn(n)
    \/ \E n \in Names : QueryReturn(n)

Spec == Init /\ [][Next]_vars

\* discovery and entity start-up only
NextDiscovery ==
    \/ SetupEntry
    \/ PollSuccess
    \/ PollFail
    \/ \E n \in Names : AddedToHass(n)
    \/ \E n \in Names : FetchReturn(n)

SpecDiscovery == InitDiscovery /\ [][NextDiscovery]_vars

\* the coordinator's refresh with its input and outcome on record
InitFetch == InitWith(RepeatingRecords)

NextFetch ==
    \/ SetupEntry
    \/ Refresh
    \/ \E n \in Names : AddedToHass(n)

SpecFetch == InitFetch /\ [][NextFetch]_vars

\* every direct query on record
NextQuery ==
    \/ SetupEntry
    \/ PollSuccess
    \/ PollFail
    \/ \E n \in Names : EspSetLoaded(n)
    \/ \E n \in Names : EspDeviceUpdate(n)
    \/ \E n \in Names : AddedToHass(n)
    \/ \E n \in Names : FetchCompletes(n)
    \/ \E n \in Names : InstallStart(n)
    \/ \E n \in Names : CompileReturn(n)
    \/ \E n \in Names : UploadReturn(n)
    \/ \E n \in Names : RefreshReturn(n)
    \/ \E n \in Names : InstallQueryCompletes(n)

SpecQuery == InitQuery /\ [][NextQuery]_vars

\* entity start-up, live source and removal, without installs
NextTeardown ==
    \/ SetupEntry
    \/ PollSuccess
    \/ PollFail
    \/ \E n \in Names : EspSetLoaded(n)
    \/ \E n \in Names : EspDeviceUpdate(n)
    \/ \E n \in Names : AddedToHass(n)
    \/ \E n \in Names : FetchReturn(n)
    \/ \E n \in Names : WillRemoveFromHass(n)

SpecTeardown == Init /\ [][NextTeardown]_vars

\* ------------------------------------------------------------ config flow
\* a key that entry.data does not hold
Absent == "absent"

\* URLs are sequences of tokens: the scheme with its colon, single slashes,
\* a host and a port with its colon
ValidStems ==
    { <<"http:", "/", "/", "a">>,
      <<"http:", "/", "/", "a", ":6052">> }
InvalidStems ==
    { <<"a">>,
      <<"http:">>,
      <<"http:", "/", "/", "a", ":65536">> }
TrailingSlashes == { <<>>, <<"/">>, <<"/", "/">> }
Urls == { stem \o t : stem \in ValidStems \cup InvalidStems,
                      t \in TrailingSlashes }

\* the username and password fields of a submitted form (None: left out)
Usernames == {None, "admin"}
Passwords == {None, "secret"}

RStripNothing(url) == url

\* str.rstrip("/")
RECURSIVE RStrip(_)
RStrip(url) ==
    IF url # <<>> /\ url[Len(url)] = "/"
    THEN RStrip(SubSeq(url, 1, Len(url) - 1))
    ELSE url

\* urlparse(url): the scheme, and the netloc that follows "//" up to the
\* next slash
UrlParse(url) ==
    LET scheme == IF url # <<>> /\ url[1] = "http:" THEN "http" ELSE ""
        rest == IF scheme = "" THEN url ELSE Tail(url)
        after == IF Len(rest) >= 2 /\ rest[1] = "/" /\ rest[2] = "/"
                 THEN SubSeq(rest, 3, Len(rest)) ELSE <<>>
        slashes == { i \in DOMAIN after : after[i] = "/" }
        stop == IF slashes = {} THEN Len(after) + 1
                ELSE CHOOSE i \in slashes : \A j \in slashes : i <= j
    IN [scheme |-> scheme, netloc |-> SubSeq(after, 1, stop - 1)]

MaxPort == 65535
PortNumber(token) ==
    CASE token = ":6052" -> 6052
      [] token = ":65536" -> 65536
      [] OTHER -> -1

PortRaisesValueErrorNever(netloc) == FALSE

\* parsed.port raises ValueError
PortRaisesValueError(netloc) ==
    \E i \in DOMAIN netloc :
        /\ netloc[i] \in {":6052", ":65536"}
        /\ PortNumber(netloc[i]) \notin 0..MaxPort

\* what the dashboard does with a request
Answer(status) == [kind |-> "response", status |-> status]
ResponseError(status) == [kind |-> "ClientResponseError", status |-> status]
ConnectionError == [kind |-> "ClientConnectionError", status |-> 0]
DevicesJson(has_configured) ==
    [kind |-> IF has_configured THEN "json_configured" ELSE "json_other",
     status |-> 200]
NotAsked == [kind |-> "not_asked", status |-> 0]

\* the dashboard's answers to session.get(url/) and api.get_devices()
Probes ==
    { [root |-> r, devices |-> NotAsked] :
        r \in {Answer(204), ResponseError(401), ConnectionError} }
    \cup { [root |-> Answer(200), devices |-> d] :
             d \in {DevicesJson(TRUE), DevicesJson(FALSE),
                    ResponseError(403), ResponseError(404)} }

\* the calls _validate_input makes, with what came back
CreateSession(username, password) ==
    [call |-> "async_create_clientsession",
     outcome |-> [kind |-> IF Truthy(username) /\ Truthy(password)
                           THEN "BasicAuth" ELSE "no_auth",
                  status |-> 0]]
Get(outcome) == [call |-> "session.get", outcome |-> outcome]
GetDevices(outcome) == [call |-> "api.get_devices", outcome |-> outcome]
Close == [call |-> "session.close", outcome |-> NotAsked]

ProbeErrorOnly401(outcome) ==
    IF outcome.kind = "ClientResponseError" /\ outcome.status = 401
    THEN "invalid_auth"
    ELSE "cannot_connect"

\* the except clauses of _validate_input
ProbeError(outcome) ==
    IF outcome.kind = "ClientResponseError" /\ outcome.status \in {401, 403}
    THEN "invalid_auth"
    ELSE "cannot_connect"

\* _validate_input: errors["base"] ("" for no error) and the calls made
ValidateInput(url, username, password, probe) ==
    LET parsed == UrlParse(url)
        session == CreateSession(username, password)
    IN IF parsed.scheme = "" \/ parsed.netloc = <<>>
       THEN [errors |-> "invalid_url", calls |-> <<>>]
       ELSE IF PortRaisesValueError(parsed.netloc)
       THEN [errors |-> "invalid_url", calls |-> <<>>]
       ELSE IF probe.root.kind # "response"
       THEN [errors |-> ProbeError(probe.root),
             calls |-> <<session, Get(probe.root), Close>>]
       ELSE IF probe.root.status # 200
       THEN [errors |-> "cannot_connect",
             calls |-> <<session, Get(probe.root), Close>>]
       ELSE [errors |->
                 CASE probe.devices.kind = "json_configured" -> ""
                   [] probe.devices.kind = "json_other" -> "invalid_dashboard"
                   [] OTHER -> ProbeError(probe.devices),
             calls |-> <<session, Get(probe.root),
                         GetDevices(probe.devices), Close>>]

\* the dashboard is only asked when the URL passed the format check
ProbesFor(url) ==
    IF ValidateInput(url, None, None, CHOOSE p \in Probes : TRUE).calls = <<>>
    THEN { [root |-> NotAsked, devices |-> NotAsked] }
    ELSE Probes

\* results of a flow step; url is the URL the step validated
ShowForm(step, url, errors) ==
    [type |-> "form", step |-> step, url |-> url, reason |-> errors]
CreateEntry(url) ==
    [type |-> "create_entry", step |-> "user", url |-> url, reason |-> ""]
Abort(step, url, reason) ==
    [type |-> "abort", step |-> step, url |-> url, reason |-> reason]

\* _abort_if_unique_id_configured: an entry of this domain has the flow's
\* unique id
UniqueIdConfigured(unique_id) ==
    \E i \in DOMAIN entries : entries[i].unique_id = unique_id

\* the entry data async_step_user builds
UserData(url, username, password) ==
    [unique_id |-> url, url |-> url,
     username |-> IF Truthy(username) THEN username ELSE Absent,
     password |-> IF Truthy(username) THEN password ELSE Absent]

CredentialUpdatesReplaceData(entry, username, password) ==
    [entry EXCEPT
        !.url = <<>>,
        !.username = IF Truthy(username) THEN username ELSE None,
        !.password = IF Truthy(username) THEN password ELSE None]

\* data_updates of async_step_reconfigure and async_step_reauth_confirm
CredentialUpdates(entry, username, password) ==
    [entry EXCEPT
        !.username = IF Truthy(username) THEN username ELSE None,
        !.password = IF Truthy(username) THEN password ELSE None]

\* async_step_user with a submitted form
StepUser ==
    \E input \in Urls, username \in Usernames, password \in Passwords :
      LET url == RStrip(input) IN
      \E probe \in ProbesFor(url) :
        LET v == ValidateInput(url, username, password, probe) IN
        /\ flowCalls' = v.calls
        /\ IF v.errors # ""
           THEN /\ flowResult' = ShowForm("user", url, v.errors)
                /\ UNCHANGED entries
           ELSE IF UniqueIdConfigured(url)
           THEN /\ flowResult' = Abort("user", url, "already_configured")
                /\ UNCHANGED entries
           ELSE /\ flowResult' = CreateEntry(url)
                /\ entries' = Append(entries,
                                     UserData(url, username, password))
        /\ UNCHANGED <<dashboardRecords, fetchVars, lastQuery, data,
                       lastUpdateSuccess,
                       platformSetup, known_devices, entityCount, everSeen,
                       lifecycle, entity, espVars, fetchTasks, installVars,
                       lastApplied, staleCache, queried>>

\* async_step_reconfigure of entry i with a submitted form
StepReconfigure(i) ==
    \E input \in Urls, username \in Usernames, password \in Passwords :
      LET url == RStrip(input) IN
      \E probe \in ProbesFor(url) :
        LET v == ValidateInput(url, username, password, probe) IN
        /\ i \in DOMAIN entries
        /\ flowCalls' = v.calls
        /\ IF v.errors # ""
           THEN /\ flowResult' = ShowForm("reconfigure", url, v.errors)
                /\ UNCHANGED entries
           ELSE IF UniqueIdConfigured(url)
           THEN /\ flowResult' =
                       Abort("reconfigure", url, "already_configured")
                /\ entries' = [j \in DOMAIN entries |->
                       IF entries[j].unique_id = url
                       THEN [entries[j] EXCEPT !.url = url]
                       ELSE entries[j]]
           ELSE /\ flowResult' =
                       Abort("reconfigure", url, "reconfigure_successful")
                /\ entries' = [entries EXCEPT ![i] =
                       CredentialUpdates(
                           [entries[i] EXCEPT !.unique_id = url, !.url = url],
                           username, password)]
        /\ UNCHANGED <<dashboardRecords, fetchVars, lastQuery, data,
                       lastUpdateSuccess,
                       platformSetup, known_devices, entityCount, everSeen,
                       lifecycle, entity, espVars, fetchTasks, installVars,
                       lastApplied, staleCache, queried>>

\* async_step_reauth_confirm of entry i with a submitted form
StepReauthConfirm(i) ==
    \E username \in Usernames, password \in Passwords, probe \in Probes :
        LET url == entries[i].url
            v == ValidateInput(url, username, password, probe) IN
        /\ i \in DOMAIN entries
        /\ flowCalls' = v.calls
        /\ IF v.errors # ""
           THEN /\ flowResult' = ShowForm("reauth_confirm", url, v.errors)
                /\ UNCHANGED entries
           ELSE /\ flowResult' =
                       Abort("reauth_confirm", url, "reauth_successful")
                /\ entries' = [entries EXCEPT ![i] =
                       CredentialUpdates(entries[i], username, password)]
        /\ UNCHANGED <<dashboardRecords, fetchVars, lastQuery, data,
                       lastUpdateSuccess,
                       platformSetup, known_devices, entityCount, everSeen,
                       lifecycle, entity, espVars, fetchTasks, installVars,
                       lastApplied, staleCache, queried>>

\* the config flow alone: no dashboard is set up yet
InitFlow == InitWith({})

NextFlow ==
    \/ StepUser
    \/ \E i \in DOMAIN entries : StepReconfigure(i)
    \/ \E i \in DOMAIN entries : StepReauthConfirm(i)

SpecFlow == InitFlow /\ [][NextFlow]_vars

TypeOK ==
    /\ DOMAIN data \subseteq Names
    /\ \A n \in Names : pc[n] \in {"idle", "compiling", "uploading",
                                   "refreshing", "querying"}

\* ================================================================ claims
Entities == { n \in Names : lifecycle[n] # "none" }

LogKinds(n) == { installLog[n][i][1] : i \in 1..Len(installLog[n]) }

\* C1: whenever a live source is linked and reports device info, reading
\* installed_version returns the live version, whatever the cached and
\* dashboard values are.
C1_LivePriority ==
    \A n \in Entities :
        (entity[n]._esphome_entry_data /\ espInfo[n] # None)
            => installed_version(n) = espInfo[n]

C1_Witness ==
    \E n \in Entities :
        /\ entity[n]._esphome_entry_data
        /\ espInfo[n] # None
        /\ Truthy(entity[n]._cached_device_version)
        /\ entity[n]._cached_device_version # espInfo[n]
        /\ entity[n]._dashboard_deployed_version \notin {None, espInfo[n]}

\* C2: once the live source was linked for an entity that resolved its
\* version from the cached direct-query value, no read of installed_version
\* returns that cached value again.
C2_StaleCacheNeverReturned ==
    \A n \in Entities :
        staleCache[n] # None
            => ~(/\ ResolvedTier(n) = "cached"
                 /\ installed_version(n) = staleCache[n])

\* C3: the cached value is returned only when no live source is linked and
\* a direct query succeeded before; with no live source and no cached value
\* the deployed_version of the most recent device record is returned.
C3_FallbackOrder ==
    \A n \in Entities :
        /\ ResolvedTier(n) = "cached"
              => (~entity[n]._esphome_entry_data /\ queried[n])
        /\ (~entity[n]._esphome_entry_data
              /\ ~Truthy(entity[n]._cached_device_version))
              => installed_version(n) = lastApplied[n].deployed_version

\* C4: async_install on an entity without address fails with the error
\* naming the device and does nothing else: no compile, upload, refresh or
\* direct query, and the entity's fields (the cached version among them)
\* are unchanged.
C4_NoAddressInstall ==
    [][\A n \in Names :
          (InstallStart(n) /\ ~Truthy(entity[n]._address))
             => /\ installResult'[n] = NoAddressError(n)
                /\ installLog'[n] = <<>>
                /\ pc'[n] = "idle"
                /\ entity'[n] = entity[n]
                /\ fetchTasks'[n] = fetchTasks[n]]_vars

C4_Witness ==
    \E n \in Entities :
        /\ installResult[n] = NoAddressError(n)
        /\ ~Truthy(entity[n]._address)
        /\ Truthy(entity[n]._cached_device_version)

\* C5: upload is called only right after compile of the entity's
\* configuration returned success; a failed compile ends the install with
\* the error naming the configuration, without upload, cache clearing or
\* refresh request, and its step leaves the entity's fields unchanged.
C5_CompileThenUpload ==
    /\ [](\A n \in Entities :
            LET log == installLog[n]
                cfg == entity[n]._configuration
            IN /\ \A i \in 1..Len(log) :
                     log[i][1] = "upload"
                        => /\ i = 3
                           /\ log[1] = <<"compile", cfg>>
                           /\ log[2] = <<"compile_result", "success">>
                           /\ log[3][2] = cfg
               /\ "compile_result" \in LogKinds(n)
                     /\ log[2] = <<"compile_result", "failure">>
                     => /\ log = << <<"compile", cfg>>,
                                    <<"compile_result", "failure">> >>
                        /\ installResult[n] = CompileError(cfg)
                        /\ pc[n] = "idle")
    /\ [][\A n \in Names :
            (pc[n] = "compiling" /\ pc'[n] = "idle")
               => /\ installLog'[n][2] = <<"compile_result", "failure">>
                  /\ entity'[n] = entity[n]
                  /\ fetchTasks'[n] = fetchTasks[n]]_vars

C5_Witness ==
    \E n \in Entities :
        /\ installResult[n] = CompileError(entity[n]._configuration)
        /\ Truthy(entity[n]._cached_device_version)

\* C6: when compile succeeded and upload fails, the install ends with the
\* error naming the device and its address; no step of that install changes
\* the cached version, requests a refresh or starts a direct query.
C6_UploadFailure ==
    /\ [](\A n \in Entities :
            LET log == installLog[n]
            IN (Len(log) >= 4 /\ log[4] = <<"upload_result", "failure">>)
                  => /\ Len(log) = 4
                     /\ log[2] = <<"compile_result", "success">>
                     /\ \E a \in {None, "", Addr} :
                           installResult[n] = UploadError(n, a)
                     /\ pc[n] = "idle")
    /\ [][\A n \in Names :
            /\ (pc[n] = "uploading" /\ pc'[n] = "idle")
                  => /\ installLog'[n][4] = <<"upload_result", "failure">>
                     /\ installResult'[n] = UploadError(n, entity[n]._address)
                     /\ entity'[n] = entity[n]
                     /\ fetchTasks'[n] = fetchTasks[n]
            /\ (pc[n] # pc'[n] /\ pc'[n] \in {"compiling", "uploading"})
                  => /\ entity'[n] = entity[n]
                     /\ fetchTasks'[n] = fetchTasks[n]]_vars

C6_Witness ==
    \E n \in Entities :
        /\ installResult[n] = UploadError(n, entity[n]._address)
        /\ Truthy(entity[n]._cached_device_version)

\* C7: a successful install clears the cached version, then requests a
\* coordinator refresh, and then attempts exactly one direct query if no
\* live source is linked and the entity has an address, and none otherwise.
C7_SuccessfulInstall ==
    /\ [](\A n \in Entities :
            LET log == installLog[n]
                cfg == entity[n]._configuration
            IN installResult[n] = Installed
                  => /\ Len(log) \in {6, 7}
                     /\ log[1] = <<"compile", cfg>>
                     /\ log[2] = <<"compile_result", "success">>
                     /\ log[3][1] = "upload"
                     /\ log[4] = <<"upload_result", "success">>
                     /\ log[5] = <<"clear_cache">>
                     /\ log[6] = <<"request_refresh">>
                     /\ Len(log) = 7 => log[7][1] = "query")
    /\ [][\A n \in Names :
            /\ (pc[n] = "uploading" /\ pc'[n] = "refreshing")
                  => entity'[n]._cached_device_version = None
            /\ (pc[n] = "refreshing" /\ pc'[n] # "refreshing")
                  => IF ~entity[n]._esphome_entry_data
                        /\ Truthy(entity[n]._address)
                     THEN /\ pc'[n] = "querying"
                          /\ installLog'[n] =
                                Append(installLog[n],
                                       <<"query", entity[n]._address>>)
                     ELSE /\ pc'[n] = "idle"
                          /\ installLog'[n] = installLog[n]
                          /\ installResult'[n] = Installed]_vars

C7_Witness ==
    \E n \in Entities :
        /\ installResult[n] = Installed
        /\ Len(installLog[n]) = 7
        /\ Truthy(entity[n]._cached_device_version)

\* C8: after setup and every coordinator update, each device name that ever
\* occurred in coordinator data has exactly one entity, every other name has
\* none, and no entity is ever removed.
C8_OneEntityPerName ==
    /\ [](platformSetup =>
            \A n \in Names :
                entityCount[n] = IF n \in everSeen THEN 1 ELSE 0)
    /\ [][\A n \in Names :
            /\ entityCount'[n] >= entityCount[n]
            /\ lifecycle[n] # "none" => lifecycle'[n] # "none"]_vars

C8_Witness ==
    /\ platformSetup
    /\ \E n \in everSeen : \E m \in everSeen :
          /\ n \notin DOMAIN data
          /\ m \in DOMAIN data
          /\ lifecycle[n] = "added"
          /\ lifecycle[m] = "constructed"
          /\ entityCount[n] = 1
          /\ entityCount[m] = 1

\* C9: an entity is unavailable whenever its device name is absent from the
\* latest coordinator data, it stays registered, and it is available once
\* a successful poll contains the name.
C9_Availability ==
    \A n \in Entities :
        /\ n \notin DOMAIN data => ~available(n)
        /\ (lastUpdateSuccess /\ n \in DOMAIN data) => available(n)
        /\ entityCount[n] = 1

C9_Witness ==
    \E n \in Entities :
        /\ lifecycle[n] = "added"
        /\ lastUpdateSuccess
        /\ n \notin DOMAIN data
        /\ ~entity[n]._attr_available
        /\ ~available(n)

\* C10: the INSTALL feature is enabled exactly when the device record most
\* recently applied to the entity carries a non-empty address.
C10_InstallFollowsAddress ==
    \A n \in Entities :
        (entity[n]._attr_supported_features = INSTALL)
            <=> Truthy(lastApplied[n].address)

C10_Witness ==
    \E n \in Entities :
        /\ lifecycle[n] = "added"
        /\ entity[n]._configuration = CustomConfiguration
        /\ lastApplied[n].address = ""
        /\ entity[n]._attr_supported_features = NoFeature

\* -------------------------------------------------------------------- C11
ResponseList == ConfiguredDevices(response)

\* C11: whenever a fetch returned a list of configured records, the mapping
\* it produced - which is the mapping the coordinator then holds - has
\* exactly the names occurring in the list as keys, and each key maps to the
\* last record of the list carrying that name.
C11_FetchedMapping ==
    (response.type = "json" /\ fetched.kind = "data") =>
        /\ data = fetched.data
        /\ DOMAIN data = { ResponseList[i].name : i \in DOMAIN ResponseList }
        /\ \A i \in DOMAIN ResponseList :
              \/ \E j \in DOMAIN ResponseList :
                    j > i /\ ResponseList[j].name = ResponseList[i].name
              \/ data[ResponseList[i].name] = ResponseList[i]

\* a list that names one device twice with different records has been
\* fetched
C11_Witness ==
    /\ response.type = "json"
    /\ fetched.kind = "data"
    /\ \E i, j \in DOMAIN ResponseList :
          /\ i < j
          /\ ResponseList[i].name = ResponseList[j].name
          /\ ResponseList[i] # ResponseList[j]

\* -------------------------------------------------------------------- C12
\* C12: a fetch that failed with HTTP 401 or 403 raised the
\* authentication failure, every other failing fetch (another HTTP
\* status, a connection error, a record without a name) raised the update
\* failure; the step of a failing fetch leaves the published mapping and
\* the set of entities as they were.
C12_FailureClassification ==
    /\ [](IF response.type = "http_error"
          THEN fetched = (IF response.status \in {401, 403}
                          THEN AuthFailed ELSE UpdateFailed)
          ELSE IF response.type = "connection_error"
          THEN fetched = UpdateFailed
          ELSE IF response.type = "json"
          THEN (\E i \in DOMAIN ResponseList : ResponseList[i] = Malformed)
                   <=> (fetched = UpdateFailed)
          ELSE fetched = NoOutcome)
    /\ [][(/\ fetched' \in {AuthFailed, UpdateFailed}
            /\ <<response, fetched, lastUpdateSuccess>>'
                   # <<response, fetched, lastUpdateSuccess>>)
            => /\ data' = data
               /\ known_devices' = known_devices
               /\ entityCount' = entityCount
               /\ \A n \in Names :
                     (lifecycle[n] = "none") <=> (lifecycle'[n] = "none")]_vars

\* an authentication failure was raised while entities existed
C12_Witness ==
    /\ fetched = AuthFailed
    /\ response.type = "http_error"
    /\ ~lastUpdateSuccess
    /\ \E n \in Names : lifecycle[n] = "added"

\* -------------------------------------------------------------------- C13
\* u and v differ at most by slashes at their ends
SameUrl(u, v) ==
    \E k \in 0..Len(u), l \in 0..Len(v) :
        /\ SubSeq(u, 1, k) = SubSeq(v, 1, l)
        /\ \A i \in (k + 1)..Len(u) : u[i] = "/"
        /\ \A i \in (l + 1)..Len(v) : v[i] = "/"

\* C13: no two config entries store the same URL, trailing slashes
\* disregarded; and a step of the user flow whose normalised URL an entry
\* already stores leaves the entries as they are.
C13_OneEntryPerUrl ==
    /\ [](\A i, j \in DOMAIN entries :
            i # j => ~SameUrl(entries[i].url, entries[j].url))
    /\ [][(/\ flowResult'.step = "user"
           /\ \E i \in DOMAIN entries :
                 SameUrl(entries[i].url, flowResult'.url))
          => (entries' = entries /\ flowResult'.type # "create_entry")]_vars

\* with two entries configured, a user flow for a configured URL was
\* aborted
C13_Witness ==
    /\ Len(entries) = 2
    /\ flowResult = Abort("user", entries[2].url, "already_configured")

\* -------------------------------------------------------------------- C14
\* a credential that entry.data holds
Stored(x) == x \notin {Absent, None, ""}

\* C14: in every config entry a username is stored if and only if a
\* password is stored.
C14_BothOrNeither ==
    \A i \in DOMAIN entries :
        Stored(entries[i].username) <=> Stored(entries[i].password)

\* -------------------------------------------------------------------- C15
\* outcomes of the requests the last step's validation sent
ProbeOutcomes ==
    { flowCalls[k].outcome : k \in { k \in DOMAIN flowCalls :
          flowCalls[k].call \in {"session.get", "api.get_devices"} } }
AuthRejected ==
    \E o \in ProbeOutcomes :
        o.kind = "ClientResponseError" /\ o.status \in {401, 403}
OtherProbeFailure ==
    \E o \in ProbeOutcomes :
        \/ o.kind = "ClientResponseError" /\ o.status \notin {401, 403}
        \/ o.kind = "ClientConnectionError"
        \/ o.kind = "response" /\ o.status # 200
NoConfiguredList == \E o \in ProbeOutcomes : o.kind = "json_other"

\* C15: a step whose probe was answered with HTTP 401 or 403 returns the
\* form with invalid_auth, one whose probe failed otherwise returns it
\* with cannot_connect, one whose devices response lacks "configured"
\* returns it with invalid_dashboard; such a step leaves every entry as it
\* was.
C15_ProbeFailure ==
    /\ [](/\ AuthRejected => flowResult.reason = "invalid_auth"
          /\ OtherProbeFailure => flowResult.reason = "cannot_connect"
          /\ NoConfiguredList => flowResult.reason = "invalid_dashboard"
          /\ (AuthRejected \/ OtherProbeFailure \/ NoConfiguredList)
                => flowResult.type = "form")
    /\ [][(AuthRejected \/ OtherProbeFailure \/ NoConfiguredList)'
          => entries' = entries]_vars

\* a reconfigure step was answered 403 by the devices request
C15_Witness ==
    /\ flowResult.step = "reconfigure"
    /\ flowResult.reason = "invalid_auth"
    /\ GetDevices(ResponseError(403)) \in
           { flowCalls[k] : k \in DOMAIN flowCalls }

\* -------------------------------------------------------------------- C16
\* URLs without a scheme, without a network location, or with a port
\* above 65535, with any number of trailing slashes
InvalidUrls == { stem \o t : stem \in InvalidStems, t \in TrailingSlashes }

\* C16: validation of such a URL, as submitted or with its trailing
\* slashes stripped, returns invalid_url and makes no call; the step that
\* validated it shows the form with invalid_url having made no call.
C16_InvalidUrl ==
    /\ \A input \in InvalidUrls, username \in Usernames,
          password \in Passwords, probe \in Probes :
          /\ ValidateInput(input, username, password, probe)
                = [errors |-> "invalid_url", calls |-> <<>>]
          /\ ValidateInput(RStrip(input), username, password, probe)
                = [errors |-> "invalid_url", calls |-> <<>>]
    /\ (flowResult.type # "none"
           /\ flowResult.url \in { RStrip(u) : u \in InvalidUrls })
       => /\ flowResult.type = "form"
          /\ flowResult.reason = "invalid_url"
          /\ flowCalls = <<>>

\* a URL with port 65536 was rejected while an entry existed
C16_Witness ==
    /\ flowResult.reason = "invalid_url"
    /\ flowResult.url = <<"http:", "/", "/", "a", ":65536">>
    /\ flowCalls = <<>>
    /\ entries # <<>>

\* -------------------------------------------------------------------- C17
\* C17: a reauth step keeps the number of entries, every entry's URL and
\* unique id, and every entry other than the one re-authenticated; a
\* reauth step that shows the form again changes nothing.
C17_ReauthInPlace ==
    [][flowResult'.step = "reauth_confirm"
       => /\ DOMAIN entries' = DOMAIN entries
          /\ \A i \in DOMAIN entries :
                /\ entries'[i].url = entries[i].url
                /\ entries'[i].unique_id = entries[i].unique_id
                /\ entries[i].url # flowResult'.url
                      => entries'[i] = entries[i]
          /\ flowResult'.type = "form" => entries' = entries]_vars

\* of two entries the second was re-authenticated
C17_Witness ==
    /\ Len(entries) = 2
    /\ flowResult = Abort("reauth_confirm", entries[2].url,
                          "reauth_successful")
    /\ entries[2].username = "admin"
    /\ entries[2].password = "secret"
    /\ entries[1].username = Absent

\* -------------------------------------------------------------------- C18
\* C18: once the platform is set up every name of the coordinator's
\* mapping has an entity, built once; an entity built from a record with a
\* non-empty address has the record's current_version as latest version
\* when the record has one, its deployed_version otherwise, and supports
\* install.
C18_EntityFromRecord ==
    /\ platformSetup =>
          \A n \in DOMAIN data : lifecycle[n] # "none" /\ entityCount[n] = 1
    /\ \A n \in Names :
          (lifecycle[n] = "constructed" /\ Truthy(lastApplied[n].address))
          => /\ entity[n]._attr_latest_version =
                    IF lastApplied[n].current_version # None
                    THEN lastApplied[n].current_version
                    ELSE lastApplied[n].deployed_version
             /\ entity[n]._attr_supported_features = INSTALL

\* the entity "kitchen" was built from a record with address 10.0.0.5,
\* deployed 1.0 and current 1.1
C18_Witness ==
    /\ lifecycle["kitchen"] = "constructed"
    /\ lastApplied["kitchen"].address = Addr
    /\ lastApplied["kitchen"].deployed_version = "1.0"
    /\ lastApplied["kitchen"].current_version = "1.1"
    /\ entity["kitchen"]._attr_latest_version = "1.1"
    /\ entity["kitchen"]._attr_supported_features = INSTALL

\* -------------------------------------------------------------------- C19
\* C19: in every reachable state an entity with a linked live source has
\* an empty cached direct-query version.
C19_CacheEmptyWhileLinked ==
    \A n \in Entities :
        entity[n]._esphome_entry_data
        => entity[n]._cached_device_version = None

\* -------------------------------------------------------------------- C20
\* the step delivers a coordinator refresh to the listeners
RefreshDelivered == PollSuccess \/ (lastUpdateSuccess /\ PollFail)

\* C20: when a refresh is delivered to an added entity that has no linked
\* live source while a loaded live source for its name exists, the entity
\* ends the step linked, subscribed and without a cached version.
C20_LateDiscovery ==
    [][\A n \in Names :
          (/\ lifecycle[n] = "added"
           /\ ~entity[n]._esphome_entry_data
           /\ FindEsphomeEntryData(n)
           /\ RefreshDelivered)
          => /\ entity'[n]._esphome_entry_data
             /\ entity'[n]._esphome_unsubscribe
             /\ entity'[n]._cached_device_version = None]_vars

\* an entity that held a cached version was linked by a refresh
C20_Witness ==
    \E n \in Names :
        /\ lifecycle[n] = "added"
        /\ staleCache[n] # None
        /\ entity[n]._esphome_entry_data
        /\ entity[n]._esphome_unsubscribe
        /\ entity[n]._cached_device_version = None

\* -------------------------------------------------------------------- C22
\* C22: once an entity has been removed from Home Assistant, no step
\* changes its cached direct-query version.
C22_DiscardedAfterRemoval ==
    [][\A n \in Names :
          lifecycle[n] = "removed"
          => entity'[n]._cached_device_version
                = entity[n]._cached_device_version]_vars

\* -------------------------------------------------------------------- C24
\* subscriptions of the entity that are registered with the live source
ActiveSubscriptions(n) == entity[n].subscribed - entity[n].unsubscribed

\* C24: an entity has at most one active live-source subscription, and
\* holds its unsubscribe callback exactly while it has one; a removed
\* entity has none; a linked entity stays linked and never subscribes
\* again; a teardown of a removed entity calls no unsubscribe callback.
C24_SubscriptionLifecycle ==
    /\ [](\A n \in Names :
            /\ ActiveSubscriptions(n) \in {0, 1}
            /\ entity[n]._esphome_unsubscribe <=> ActiveSubscriptions(n) = 1
            /\ lifecycle[n] = "removed" => ActiveSubscriptions(n) = 0)
    /\ [][\A n \in Names :
            /\ entity[n]._esphome_entry_data
                  => /\ entity'[n]._esphome_entry_data
                     /\ entity'[n].subscribed = entity[n].subscribed
            /\ lifecycle[n] = "removed"
                  => entity'[n].unsubscribed = entity[n].unsubscribed]_vars

\* an entity that had subscribed was removed and called the callback once
C24_Witness ==
    \E n \in Names :
        /\ lifecycle[n] = "removed"
        /\ entity[n].subscribed = 1
        /\ entity[n].unsubscribed = 1
        /\ ~entity[n]._esphome_unsubscribe

\* -------------------------------------------------------------------- C21
\* C21: when the last direct query of an added entity failed and a
\* coordinator refresh is delivered that leaves the entity with an address
\* and without a live source, the refresh starts a direct query; and when
\* an install has uploaded successfully and refreshed, an entity with an
\* address and without a live source goes on to query the device.
C21_RetryCadence ==
    [][\A n \in Names :
          /\ (/\ lifecycle[n] = "added"
              /\ lastQuery[n].result = "failed"
              /\ RefreshDelivered
              /\ Truthy(entity'[n]._address)
              /\ ~entity'[n]._esphome_entry_data)
             => fetchTasks'[n] > fetchTasks[n]
          /\ (/\ pc[n] = "refreshing"
              /\ pc'[n] # "refreshing"
              /\ Truthy(entity[n]._address)
              /\ ~entity[n]._esphome_entry_data)
             => pc'[n] = "querying"]_vars

\* -------------------------------------------------------------------- C23
\* the step completes a direct query of n
QueryCompleted(n) ==
    \/ fetchTasks'[n] < fetchTasks[n]
    \/ pc[n] = "querying" /\ pc'[n] = "idle"

\* C23: whichever way port discovery fails, the query uses port 6053, and
\* whichever way the connection or the device-info request fails, it
\* returns no version; a step that completes a query after a failed
\* discovery has used port 6053; a step that completes a failed query
\* leaves the cached version as it was, leaves the outcome of the last
\* install alone when it was a background query, and ends the install as
\* successful when it was the install's follow-up query.
C23_FailSoft ==
    /\ \A discovery \in DiscoveryOutcomes, connection \in ConnectionOutcomes :
          LET q == QueryDeviceVersion(discovery, connection) IN
          /\ discovery.kind # "found" => q.port = DEFAULT_PORT
          /\ connection.kind = "APIConnectionError" => q.version = None
    /\ [][\A n \in Names :
            QueryCompleted(n) =>
              /\ lastQuery'[n].discovery # "found"
                    => lastQuery'[n].port = DEFAULT_PORT
              /\ lastQuery'[n].result = "failed" =>
                    /\ entity'[n]._cached_device_version
                          = entity[n]._cached_device_version
                    /\ IF fetchTasks'[n] < fetchTasks[n]
                       THEN installResult'[n] = installResult[n]
                       ELSE installResult'[n] = Installed]_vars

\* an install was completed although its follow-up query, made on the
\* default port after discovery timed out, failed
C23_Witness ==
    \E n \in Names :
        /\ installResult[n] = Installed
        /\ "query" \in LogKinds(n)
        /\ lastQuery[n] = [result |-> "failed", discovery |-> "TimeoutError",
                           port |-> DEFAULT_PORT]
        /\ pc[n] = "idle"
        /\ fetchTasks[n] = 0

\* -------------------------------------------------------------------- C25
\* C25: a reconfigure step that passed validation, for a URL that no
\* other entry has configured (there is one entry only, or no entry has
\* the URL), ends as reconfigure_successful with an entry that stores the
\* URL as its URL and unique id, and with as many entries as before.
C25_ReconfigureInPlace ==
    [][(/\ flowResult'.step = "reconfigure"
        /\ flowResult'.type # "form"
        /\ \/ Len(entries) = 1
           \/ \A j \in DOMAIN entries :
                 entries[j].unique_id # flowResult'.url)
       => /\ flowResult'.reason = "reconfigure_successful"
          /\ Len(entries') = Len(entries)
          /\ \E i \in DOMAIN entries' :
                /\ entries'[i].url = flowResult'.url
                /\ entries'[i].unique_id = flowResult'.url]_vars

\* -------------------------------------------------------------------- C26
\* C26: after a refresh whose devices response lacked the "configured"
\* list the fetch has returned the empty mapping, the coordinator holds
\* it with its last update successful, and no entity is available; the
\* same response to the config flow's probe of a well-formed URL gives
\* invalid_dashboard.
C26_MissingConfigured ==
    /\ (response.type = "json" /\ ~response.has_configured)
       => /\ fetched = Fetched(<< >>)
          /\ data = << >>
          /\ lastUpdateSuccess
          /\ \A n \in Entities : ~available(n)
    /\ \A stem \in ValidStems, username \in Usernames, password \in Passwords :
          ValidateInput(stem, username, password,
                        [root |-> Answer(200),
                         devices |-> DevicesJson(FALSE)]).errors
             = "invalid_dashboard"

\* an entity that had been available lost its record to a response
\* without the "configured" list
C26_Witness ==
    /\ response.type = "json"
    /\ ~response.has_configured
    /\ lastUpdateSuccess
    /\ \E n \in Names :
          /\ lifecycle[n] = "added"
          /\ n \in everSeen
          /\ ~available(n)

============================================================================
